---- MODULE Spec2Model ----
(***************************************************************************)
(* ZenOCR: the page pipeline, the page state store, the OCR client and the *)
(* exporter of src/geminiService.ts (the App component of lines 43-498 and *)
(* extractTextFromImage of lines 4-40).                                    *)
(*                                                                         *)
(* One action is one browser task: an event handler, or the continuation   *)
(* of an awaited external promise (file read, PDF decode, getPage, render, *)
(* OCR request) together with every synchronous statement and promise      *)
(* continuation that follows it up to the next await of an external        *)
(* promise.  React state setters are applied in call order, so a task's    *)
(* setPages/setStats calls compose into one state change.                  *)
(*                                                                         *)
(* Strings are records [kind, doc, page]; the source's literals are named  *)
(* in the comments of the definitions that stand for them.                 *)
(***************************************************************************)
EXTENDS Integers, Sequences, FiniteSets, Bags, TLC

\* bounds of the model
MaxPages == 2
MaxUploads == 2
MaxRedoCalls == 1

VARIABLES
  pages,          \* useState<GranularPageResult[]>: the page store
  stats,          \* useState<ProcessingStats>
  selectedFormat, \* useState<OutputFormat>
  runs,           \* one processPdf invocation per upload: position and locals
  uploads,        \* number of processPdf runs started so far
  redoCalls,      \* bag of OCR requests in flight on behalf of handleRedo
  env,            \* process.env.API_KEY present, window.pdfjsLib present
  out             \* what the last task showed or returned (alert, confirm,
                  \* downloaded file, result of an OCR request)

vars == <<pages, stats, selectedFormat, runs, uploads, redoCalls, env, out>>

\* strings

Str(kind, doc, page) == [kind |-> kind, doc |-> doc, page |-> page]

\* ''
EmptyText == Str("empty", 0, 0)
\* the value of an absent originalExtractedText
Undefined == Str("undefined", 0, 0)
\* JSON null
Null == Str("null", 0, 0)
\* response.text of a request that recognised the image data
RecognizedText(data) == Str("recognized", data.doc, data.page)
\* the fallback of line 35
NoTextFallback == Str("fallback-unrecognized", 0, 0)
\* the message of line 38 (the cause it embeds is left out)
OcrErrorText == Str("ocr-error", 0, 0)
\* the message of the Error thrown at line 7
ApiKeyError == Str("api-key-not-found", 0, 0)
\* the fixed message of line 88
OcrFailedMessage == Str("page-error-message", 0, 0)
\* the placeholders of lines 187 and 194
TxtFailedPlaceholder == Str("txt-failed", 0, 0)
MdFailedPlaceholder == Str("md-failed", 0, 0)

\* truthiness of a string
Truthy(s) == s # EmptyText

\* canvas.toDataURL of page `page` of the document of run `doc`; '' is NoImage
NoImage == [mime |-> "", doc |-> 0, page |-> 0]
DataUrl(doc, page) == [mime |-> "data:image/jpeg;base64", doc |-> doc, page |-> page]
\* imageUrl.split(',')[1]
Base64Data(imageUrl) == [doc |-> imageUrl.doc, page |-> imageUrl.page]

Formats == {"txt", "md", "json"}
Statuses == {"pending", "rendering", "processing", "completed", "error"}
\* what the OCR service does with a request
Responses == {"text", "empty", "network", "service"}

\* OCR client

\* the client without the throw of line 7: a missing credential is reported
\* like any other error
extractTextFromImageNoThrow(apiKey, base64Data, response) ==
  IF ~apiKey \/ response \in {"network", "service"}
    THEN [raised |-> FALSE, value |-> OcrErrorText]
    ELSE IF response = "text"
      THEN [raised |-> FALSE, value |-> RecognizedText(base64Data)]
      ELSE [raised |-> FALSE, value |-> NoTextFallback]

\* result of a call: the promise is rejected (raised) or fulfilled with value
extractTextFromImage(apiKey, base64Data, response) ==
  IF ~apiKey
    THEN [raised |-> TRUE, value |-> ApiKeyError]
    ELSE IF response \in {"network", "service"}
      THEN [raised |-> FALSE, value |-> OcrErrorText]
      ELSE IF response = "text"
        THEN [raised |-> FALSE, value |-> RecognizedText(base64Data)]
        ELSE [raised |-> FALSE, value |-> NoTextFallback]

NoResult == [raised |-> FALSE, value |-> Undefined]

\* page store updates

\* the records of a store
Records(prev) == {prev[j] : j \in DOMAIN prev}

\* prev.map(p => f(p)): the update without the test of the page number
MapEveryPage(prev, pageNumber, f) == [j \in DOMAIN prev |-> f[prev[j]]]

\* prev.map(p => p.pageNumber === pageNumber ? f(p) : p), for f a function on
\* the records of prev
MapPage(prev, pageNumber, f) ==
  [j \in DOMAIN prev |-> IF prev[j].pageNumber = pageNumber THEN f[prev[j]] ELSE prev[j]]

\* pageNumber: i instead of i + 1
InitialPageZeroBased(n) ==
  [pageNumber |-> n - 1, imageUrl |-> NoImage, extractedText |-> EmptyText,
   originalExtractedText |-> Undefined, status |-> "pending"]

InitialPage(n) ==
  [pageNumber |-> n, imageUrl |-> NoImage, extractedText |-> EmptyText,
   originalExtractedText |-> Undefined, status |-> "pending"]

InitialPages(total) == [j \in 1..total |-> InitialPage(j)]

SetRendering(p) == [p EXCEPT !.status = "rendering"]

SetImage(p, imageUrl) == [p EXCEPT !.imageUrl = imageUrl, !.status = "processing"]

\* the start of a cycle that keeps the text of the page
OcrStartedKeepingText(p) == [p EXCEPT !.status = "processing"]

OcrStarted(p) == [p EXCEPT !.status = "processing", !.extractedText = EmptyText]

\* a completion write that keeps a text typed in the meantime
OcrCompletedKeepingEdit(p, text) ==
  [p EXCEPT !.extractedText = IF Truthy(p.extractedText) THEN p.extractedText ELSE text,
            !.originalExtractedText = text, !.status = "completed"]

OcrCompleted(p, text) ==
  [p EXCEPT !.extractedText = text, !.originalExtractedText = text, !.status = "completed"]

\* the catch block without its message
OcrFailedWithoutMessage(p) == [p EXCEPT !.status = "error"]

OcrFailed(p) == [p EXCEPT !.status = "error", !.extractedText = OcrFailedMessage]

\* an edit that also moves the reference text of the page
TextChangedWithOriginal(p, newText) ==
  [p EXCEPT !.extractedText = newText, !.originalExtractedText = newText]

TextChanged(p, newText) == [p EXCEPT !.extractedText = newText]

\* performOcrOnPage up to the await of the request
performOcrStart(prev, pageNumber) ==
  MapPage(prev, pageNumber, [p \in Records(prev) |-> OcrStarted(p)])

\* performOcrOnPage from the settled request on
performOcrFinish(prev, pageNumber, result) ==
  IF result.raised
    THEN MapPage(prev, pageNumber, [p \in Records(prev) |-> OcrFailed(p)])
    ELSE MapPage(prev, pageNumber, [p \in Records(prev) |-> OcrCompleted(p, result.value)])

HasPage(ps, pageNumber) == \E j \in DOMAIN ps : ps[j].pageNumber = pageNumber
PageOf(ps, pageNumber) == ps[CHOOSE j \in DOMAIN ps : ps[j].pageNumber = pageNumber]

\* What a task shows or returns, and what it was given: event and page name
\* the task; status is the status of the page handed to handleRedo or, for a
\* settled OCR request, the status its write found; alert, confirmAsked and
\* confirmed are the dialogs; ocrStarted tells that performOcrOnPage was
\* called; ocrSettled that an extractTextFromImage call settled, with the
\* service's response, the call's result and the extractedText its write
\* replaced; file is the download.

NoFile == [extension |-> "", mimeType |-> "", content |-> <<>>]

NoOut ==
  [event |-> "init", page |-> 0, status |-> "", alert |-> "", confirmAsked |-> FALSE,
   confirmed |-> FALSE, ocrStarted |-> FALSE, ocrSettled |-> FALSE, response |-> "",
   result |-> NoResult, replaced |-> Undefined, file |-> NoFile]

Event(name, page) == [NoOut EXCEPT !.event = name, !.page = page]

\* initial state

NoRun == [pc |-> "none", total |-> 0, i |-> 0]

Init ==
  /\ pages = <<>>
  /\ stats = [totalPages |-> 0, processedPages |-> 0, isProcessing |-> FALSE]
  /\ selectedFormat = "txt"
  /\ runs = [r \in 1..MaxUploads |-> NoRun]
  /\ uploads = 0
  /\ redoCalls = EmptyBag
  /\ env \in [apiKey : BOOLEAN, pdfjsLib : BOOLEAN]
  /\ out = NoOut

\* processPdf, the part run by reader.onload (lines 103-147)

\* a run whose onload handler has returned: its locals are gone
Done == [pc |-> "done", total |-> 0, i |-> 0]

\* a run that ends without the finally block
FinallySkipped(st) == st

\* the finally block of line 145
Finally(st) == [st EXCEPT !.isProcessing = FALSE]

\* the head of the for loop for i = next: the next iteration up to its await
\* of pdf.getPage, or the exit of the loop through the finally block
LoopNext(ps, st, run, next) ==
  IF next <= run.total
    THEN [pages |-> MapPage(ps, next, [p \in Records(ps) |-> SetRendering(p)]), stats |-> st,
          run |-> [run EXCEPT !.pc = "getPage", !.i = next]]
    ELSE [pages |-> ps, stats |-> Finally(st), run |-> Done]

\* lines 138-140 once the request of page run.i has settled
AfterOcr(ps, st, run, result) ==
  LoopNext(performOcrFinish(ps, run.i, result),
           [st EXCEPT !.processedPages = run.i], run, run.i + 1)

\* the catch block of lines 141-143 followed by the finally block
Abort(r, name) ==
  /\ stats' = Finally(stats)
  /\ runs' = [runs EXCEPT ![r] = Done]
  /\ out' = [Event(name, runs[r].i) EXCEPT !.alert = "cannot-read-pdf"]
  /\ UNCHANGED <<pages, selectedFormat, uploads, redoCalls, env>>

Commit(r, name, next, o) ==
  /\ pages' = next.pages
  /\ stats' = next.stats
  /\ runs' = [runs EXCEPT ![r] = next.run]
  /\ out' = o
  /\ UNCHANGED <<selectedFormat, uploads, redoCalls, env>>

ReplacedText(ps, pageNumber) ==
  IF HasPage(ps, pageNumber) THEN PageOf(ps, pageNumber).extractedText ELSE Undefined

FoundStatus(ps, pageNumber) ==
  IF HasPage(ps, pageNumber) THEN PageOf(ps, pageNumber).status ELSE ""

Settled(o, response, result, ps) ==
  [o EXCEPT !.ocrSettled = TRUE, !.response = response, !.result = result,
            !.replaced = ReplacedText(ps, o.page),
            !.status = IF o.event = "handleRedo" THEN o.status ELSE FoundStatus(ps, o.page)]

\* the file has been read: onload runs up to the await of the decode
fileLoaded(r) ==
  /\ runs[r].pc = "reading"
  /\ runs' = [runs EXCEPT ![r].pc = "decoding"]
  /\ out' = Event("fileLoaded", 0)
  /\ UNCHANGED <<pages, stats, selectedFormat, uploads, redoCalls, env>>

\* the read fails: reader has no onerror handler, nothing runs
fileReadError(r) ==
  /\ runs[r].pc = "reading"
  /\ runs' = [runs EXCEPT ![r].pc = "readFailed"]
  /\ out' = Event("fileReadError", 0)
  /\ UNCHANGED <<pages, stats, selectedFormat, uploads, redoCalls, env>>

\* loadingTask.promise is rejected
decodeFailed(r) ==
  /\ runs[r].pc = "decoding"
  /\ Abort(r, "decodeFailed")

\* loadingTask.promise is fulfilled with a document of `total` pages
decoded(r, total) ==
  /\ runs[r].pc = "decoding"
  /\ Commit(r, "decoded",
            LoopNext(InitialPages(total), [stats EXCEPT !.totalPages = total],
                     [runs[r] EXCEPT !.total = total], 1),
            Event("decoded", 0))

\* pdf.getPage(i) is rejected
getPageFailed(r) ==
  /\ runs[r].pc = "getPage"
  /\ Abort(r, "getPageFailed")

\* a missing context handled as a failure of the document: throw, not continue
noContextThrows(r) ==
  /\ runs[r].pc = "getPage"
  /\ Abort(r, "noContext")

\* pdf.getPage(i) is fulfilled, canvas.getContext('2d') is null: continue
noContext(r) ==
  /\ runs[r].pc = "getPage"
  /\ Commit(r, "noContext", LoopNext(pages, stats, runs[r], runs[r].i + 1),
            Event("noContext", runs[r].i))

\* pdf.getPage(i) is fulfilled, the context exists: up to the await of render
gotPage(r) ==
  /\ runs[r].pc = "getPage"
  /\ runs' = [runs EXCEPT ![r].pc = "render"]
  /\ out' = Event("gotPage", runs[r].i)
  /\ UNCHANGED <<pages, stats, selectedFormat, uploads, redoCalls, env>>

\* page.render(...).promise is rejected (or toDataURL throws)
renderFailed(r) ==
  /\ runs[r].pc = "render"
  /\ Abort(r, "renderFailed")

\* the render is done: lines 134-138 up to the await of the OCR request; a
\* request without a credential is rejected at once and the loop goes on
rendered(r) ==
  /\ runs[r].pc = "render"
  /\ LET i == runs[r].i
         imageUrl == DataUrl(r, i)
         withImage == MapPage(pages, i, [p \in Records(pages) |-> SetImage(p, imageUrl)])
         started == performOcrStart(withImage, i)
         result == extractTextFromImage(env.apiKey, Base64Data(imageUrl), "text")
         o == [Event("rendered", i) EXCEPT !.ocrStarted = TRUE]
     IN IF result.raised
          THEN Commit(r, "rendered", AfterOcr(started, stats, runs[r], result),
                      Settled(o, "nokey", result, started))
          ELSE Commit(r, "rendered",
                      [pages |-> started, stats |-> stats,
                       run |-> [runs[r] EXCEPT !.pc = "ocr"]], o)

\* the OCR request of the pipeline settles
ocrReturned(r, response) ==
  /\ runs[r].pc = "ocr"
  /\ LET i == runs[r].i
         result == extractTextFromImage(env.apiKey, Base64Data(DataUrl(r, i)), response)
     IN Commit(r, "ocrReturned", AfterOcr(pages, stats, runs[r], result),
               Settled(Event("ocrReturned", i), response, result, pages))

\* an OCR request of handleRedo settles
redoReturned(call, response) ==
  /\ BagIn(call, redoCalls)
  /\ LET result == extractTextFromImage(env.apiKey, Base64Data(call.imageUrl), response)
     IN /\ pages' = performOcrFinish(pages, call.pageNumber, result)
        /\ out' = Settled(Event("redoReturned", call.pageNumber), response, result, pages)
  /\ redoCalls' = redoCalls (-) SetToBag({call})
  /\ UNCHANGED <<stats, selectedFormat, runs, uploads, env>>

\* exporter (downloadFullText, lines 178-217)

Seg(kind, page, status, text) == [seg |-> kind, page |-> page, status |-> status, text |-> text]

\* page.status === 'completed' ? page.extractedText : placeholder
ContentOfCompletedOnly(page, placeholder) ==
  IF page.status = "completed" THEN page.extractedText ELSE placeholder

\* page.status === 'completed' || page.extractedText ? page.extractedText : placeholder
ContentOf(page, placeholder) ==
  IF page.status = "completed" \/ Truthy(page.extractedText)
    THEN page.extractedText
    ELSE placeholder

\* pages.forEach of lines 185-189: marker line, content, divider
RECURSIVE TxtSections(_)
TxtSections(ps) ==
  IF ps = <<>> THEN <<>>
  ELSE LET page == ps[Len(ps)]
       IN TxtSections(SubSeq(ps, 1, Len(ps) - 1)) \o
          << Seg("txt-page-marker", page.pageNumber, "", EmptyText),
             Seg("text", 0, "", ContentOf(page, TxtFailedPlaceholder)),
             Seg("txt-divider", 0, "", EmptyText) >>

\* pages.forEach of lines 192-196: heading, content, horizontal rule
RECURSIVE MdSections(_)
MdSections(ps) ==
  IF ps = <<>> THEN <<>>
  ELSE LET page == ps[Len(ps)]
       IN MdSections(SubSeq(ps, 1, Len(ps) - 1)) \o
          << Seg("md-page-heading", page.pageNumber, "", EmptyText),
             Seg("text", 0, "", ContentOf(page, MdFailedPlaceholder)),
             Seg("md-rule", 0, "", EmptyText) >>

\* an export that leaves out the pages that are not completed
JsonDataCompletedOnly(ps) ==
  LET isCompleted(p) == p.status = "completed"
      done == SelectSeq(ps, isCompleted)
  IN [j \in DOMAIN done |-> Seg("json-object", done[j].pageNumber, done[j].status,
                                 ContentOf(done[j], Null))]

\* pages.map of lines 200-204, serialised by JSON.stringify as an array of objects
JsonData(ps) ==
  [j \in DOMAIN ps |-> Seg("json-object", ps[j].pageNumber, ps[j].status,
                           ContentOf(ps[j], Null))]

Export(ps, format) ==
  IF format = "txt"
    THEN [extension |-> "txt", mimeType |-> "text/plain",
          content |-> <<Seg("txt-header", 0, "", EmptyText)>> \o TxtSections(ps)]
    ELSE IF format = "md"
      THEN [extension |-> "md", mimeType |-> "text/markdown",
            content |-> <<Seg("md-title", 0, "", EmptyText)>> \o MdSections(ps)]
      ELSE IF format = "json"
        THEN [extension |-> "json", mimeType |-> "application/json",
              content |-> JsonData(ps)]
        ELSE [extension |-> "txt", mimeType |-> "text/plain", content |-> <<>>]

\* event handlers

Files == {"none", "other", "pdf"}

\* processPdf up to reader.readAsArrayBuffer (lines 92-102, 148)
processPdf ==
  IF ~env.pdfjsLib
    THEN /\ out' = [Event("handleFileChange", 0) EXCEPT !.alert = "pdfjs-not-loaded"]
         /\ UNCHANGED <<pages, stats, selectedFormat, runs, uploads, redoCalls, env>>
    ELSE /\ uploads < MaxUploads
         /\ stats' = [totalPages |-> 0, processedPages |-> 0, isProcessing |-> TRUE]
         /\ pages' = <<>>
         /\ uploads' = uploads + 1
         /\ runs' = [runs EXCEPT ![uploads + 1].pc = "reading"]
         /\ out' = Event("handleFileChange", 0)
         /\ UNCHANGED <<selectedFormat, redoCalls, env>>

handleFileChange(file) ==
  IF file = "none"
    THEN /\ out' = Event("handleFileChange", 0)
         /\ UNCHANGED <<pages, stats, selectedFormat, runs, uploads, redoCalls, env>>
    ELSE IF file # "pdf"
      THEN /\ out' = [Event("handleFileChange", 0) EXCEPT !.alert = "not-a-pdf"]
           /\ UNCHANGED <<pages, stats, selectedFormat, runs, uploads, redoCalls, env>>
      ELSE processPdf

\* the comparison of line 165 inverted
isEditedInverted(page) == page.extractedText = page.originalExtractedText

isEdited(page) == page.extractedText # page.originalExtractedText

NeedsConfirm(page) == isEdited(page) /\ page.status = "completed"

\* handleRedo without the return of line 168
DeclinedIgnored(asked, answer) == FALSE

\* if (!confirmed) return;
Declined(asked, answer) == asked /\ ~answer

\* the request of performOcrOnPage called from handleRedo (line 171)
RedoCall(page) == [pageNumber |-> page.pageNumber, imageUrl |-> page.imageUrl]

\* `answer` is what the user answers to window.confirm when it is shown
handleRedo(page, answer) ==
  LET asked == NeedsConfirm(page)
      o == [Event("handleRedo", page.pageNumber) EXCEPT !.status = page.status,
              !.confirmAsked = asked, !.confirmed = asked /\ answer]
  IN IF page.imageUrl = NoImage
       THEN /\ out' = [Event("handleRedo", page.pageNumber) EXCEPT !.status = page.status]
            /\ UNCHANGED <<pages, stats, selectedFormat, runs, uploads, redoCalls, env>>
       ELSE IF Declined(asked, answer)
         THEN /\ out' = o
              /\ UNCHANGED <<pages, stats, selectedFormat, runs, uploads, redoCalls, env>>
         ELSE LET started == performOcrStart(pages, page.pageNumber)
                  result == extractTextFromImage(env.apiKey, Base64Data(page.imageUrl), "text")
              IN /\ IF result.raised
                      THEN /\ pages' = performOcrFinish(started, page.pageNumber, result)
                           /\ out' = Settled([o EXCEPT !.ocrStarted = TRUE], "nokey", result,
                                             started)
                           /\ UNCHANGED redoCalls
                      ELSE /\ BagCardinality(redoCalls) < MaxRedoCalls
                           /\ pages' = started
                           /\ out' = [o EXCEPT !.ocrStarted = TRUE]
                           /\ redoCalls' = redoCalls (+) SetToBag({RedoCall(page)})
                 /\ UNCHANGED <<stats, selectedFormat, runs, uploads, env>>

handleTextChange(pageNumber, newText) ==
  /\ pages' = MapPage(pages, pageNumber, [p \in Records(pages) |-> TextChanged(p, newText)])
  /\ out' = Event("handleTextChange", pageNumber)
  /\ UNCHANGED <<stats, selectedFormat, runs, uploads, redoCalls, env>>

setSelectedFormat(format) ==
  /\ selectedFormat' = format
  /\ out' = Event("setSelectedFormat", 0)
  /\ UNCHANGED <<pages, stats, runs, uploads, redoCalls, env>>

downloadFullText ==
  /\ out' = [Event("downloadFullText", 0) EXCEPT !.file = Export(pages, selectedFormat)]
  /\ UNCHANGED <<pages, stats, selectedFormat, runs, uploads, redoCalls, env>>

\* what the user types into the editor of a page: the text is deleted, or the
\* text of the last recognition is typed back
Typed(page) ==
  ({EmptyText} \cup ({page.originalExtractedText} \ {Undefined}))
    \ {page.extractedText}

\* the controls as rendered (lines 236-247, 390-401, 419-471)

\* the upload button without its disabled attribute
UploadNeverDisabled == TRUE

UploadEnabled == ~stats.isProcessing

ExportShown == Len(pages) > 0 /\ ~stats.isProcessing

RedoShown(page) ==
  \/ page.status \in {"completed", "error"} /\ page.imageUrl # NoImage
  \/ page.status = "error"

EditorShown(page) == page.status \notin {"pending", "rendering", "processing", "error"}

\* tasks of the pipeline

Pipeline ==
  \/ \E r \in 1..MaxUploads : fileLoaded(r)
  \/ \E r \in 1..MaxUploads : fileReadError(r)
  \/ \E r \in 1..MaxUploads : decodeFailed(r)
  \/ \E r \in 1..MaxUploads, total \in 1..MaxPages : decoded(r, total)
  \/ \E r \in 1..MaxUploads : getPageFailed(r)
  \/ \E r \in 1..MaxUploads : noContext(r)
  \/ \E r \in 1..MaxUploads : gotPage(r)
  \/ \E r \in 1..MaxUploads : renderFailed(r)
  \/ \E r \in 1..MaxUploads : rendered(r)
  \/ \E r \in 1..MaxUploads, response \in Responses : ocrReturned(r, response)

\* tasks of the pipeline and of the OCR requests of handleRedo

Tasks ==
  \/ Pipeline
  \/ \E call \in BagToSet(redoCalls), response \in Responses : redoReturned(call, response)

\* the user acts through the controls that are rendered

ClickUpload(file) == UploadEnabled /\ handleFileChange(file)

ClickRedo(j, answer) == RedoShown(pages[j]) /\ handleRedo(pages[j], answer)

TypeText(j, newText) == EditorShown(pages[j]) /\ handleTextChange(pages[j].pageNumber, newText)

ChooseFormat(format) == ExportShown /\ format # selectedFormat /\ setSelectedFormat(format)

ClickDownload == ExportShown /\ downloadFullText

\* upload, redo and editing; the export controls write nothing but
\* selectedFormat and the downloaded file, and are the steps of SpecExport
Next ==
  \/ Tasks
  \/ \E file \in Files : ClickUpload(file)
  \/ \E j \in DOMAIN pages, answer \in BOOLEAN : ClickRedo(j, answer)
  \/ \E j \in DOMAIN pages : \E newText \in Typed(pages[j]) : TypeText(j, newText)

Spec == Init /\ [][Next]_vars

\* the exporter over the stores of the type GranularPageResult[]: up to
\* MaxPages records numbered 1..n as processPdf numbers them, each with any
\* status and with a text that is empty, recognised or the message of line 88
ExportTexts == {EmptyText, RecognizedText(Base64Data(DataUrl(1, 1))), OcrFailedMessage}

ExportStores ==
  UNION { { [j \in 1..n |-> [InitialPage(j) EXCEPT !.status = c[j].status,
                                                   !.extractedText = c[j].text]] :
            c \in [1..n -> [status : Statuses, text : ExportTexts]] } :
          n \in 1..MaxPages }

InitExport ==
  /\ pages \in ExportStores
  /\ stats = [totalPages |-> Len(pages), processedPages |-> Len(pages), isProcessing |-> FALSE]
  /\ selectedFormat \in Formats
  /\ runs = [r \in 1..MaxUploads |-> NoRun]
  /\ uploads = 0
  /\ redoCalls = EmptyBag
  /\ env = [apiKey |-> TRUE, pdfjsLib |-> TRUE]
  /\ out = NoOut

NextExport ==
  \/ \E format \in Formats : ChooseFormat(format)
  \/ ClickDownload

SpecExport == InitExport /\ [][NextExport]_vars

\* handleFileChange called whatever the upload button shows: nothing in the
\* handler or in processPdf looks at stats.isProcessing
CallFileChange(file) == handleFileChange(file)

NextUploads ==
  \/ Pipeline
  \/ \E file \in Files : CallFileChange(file)

SpecUploads == Init /\ [][NextUploads]_vars

\* handleTextChange called whatever the text panel shows: nothing in the
\* handler looks at the status of the page
CallTextChange(j, newText) == handleTextChange(pages[j].pageNumber, newText)

NextEdits ==
  \/ Tasks
  \/ \E file \in Files : ClickUpload(file)
  \/ \E j \in DOMAIN pages, answer \in BOOLEAN : ClickRedo(j, answer)
  \/ \E j \in DOMAIN pages : \E newText \in Typed(pages[j]) : CallTextChange(j, newText)

SpecEdits == Init /\ [][NextEdits]_vars

\* uploads through the button with no redo and no edit: the pipeline alone
NextLoop ==
  \/ Pipeline
  \/ \E file \in Files : ClickUpload(file)

SpecLoop == Init /\ [][NextLoop]_vars

\* handleRedo called whatever the redo buttons show: nothing in the handler
\* looks at the status of the page unless its text was edited
CallRedo(j, answer) == handleRedo(pages[j], answer)

NextRedos ==
  \/ Tasks
  \/ \E file \in Files : ClickUpload(file)
  \/ \E j \in DOMAIN pages, answer \in BOOLEAN : CallRedo(j, answer)

SpecRedos == Init /\ [][NextRedos]_vars

\* the interface with every awaited operation of a run settling in the end:
\* the file read, the decode, getPage, the render and the OCR request of the
\* loop each end in one of their outcomes, which are the tasks of Pipeline
SpecLive == Init /\ [][Next]_vars /\ WF_vars(Pipeline)

\* ---- properties ----

Running == {"getPage", "render", "ocr"}

\* C1 (as claimed): when the run of a document that decoded into N pages
\* finishes, processedPages = N and every PageRecord is completed or error.
C1_FinishedRunProcessedAll ==
  [][\A r \in 1..MaxUploads :
       (runs[r].pc \in Running /\ runs'[r].pc = "done")
         => /\ stats'.processedPages = runs[r].total
            /\ \A j \in DOMAIN pages' : pages'[j].status \in {"completed", "error"}]_vars

\* a PageRecord that holds nothing but what run `doc` produces for its page
OnlyOfDocument(p, doc) ==
  /\ p.imageUrl \in {NoImage, DataUrl(doc, p.pageNumber)}
  /\ \A t \in {p.extractedText, p.originalExtractedText} :
       t.kind = "recognized" => t = RecognizedText(Base64Data(DataUrl(doc, p.pageNumber)))

\* C2 (as claimed): when the newer of two uploads finishes after every older
\* run has finished, the store holds exactly the newer document's N
\* PageRecords, each with image and text of the newer document only.
C2_StoreIsNewerDocument ==
  [][(/\ uploads >= 2
      /\ runs[uploads].pc \in Running /\ runs'[uploads].pc = "done"
      /\ \A q \in 1..(uploads - 1) : runs[q].pc = "done")
       => /\ Len(pages') = runs[uploads].total
          /\ \A j \in DOMAIN pages' : /\ pages'[j].pageNumber = j
                                      /\ OnlyOfDocument(pages'[j], uploads)]_vars

PageNumbers(ps) == [j \in DOMAIN ps |-> ps[j].pageNumber]

\* C4: the store always holds one PageRecord per page number of
\* 1..totalPages, in ascending order, and only the reset of an upload and the
\* decode of a document change the sequence of page numbers.
C4_OneRecordPerPageNumber ==
  /\ [](PageNumbers(pages) = [j \in 1..stats.totalPages |-> j])
  /\ [][out'.event \notin {"handleFileChange", "decoded"}
          => PageNumbers(pages') = PageNumbers(pages)]_vars

C4_Witness ==
  /\ out.event = "redoReturned"
  /\ Len(pages) >= 2
  /\ HasPage(pages, out.page) /\ PageOf(pages, out.page).status = "completed"

\* C5: a redo of a completed page starts an OCR cycle without asking exactly
\* when extractedText equals originalExtractedText; when they differ a cycle
\* starts only after the user has confirmed.
C5_RedoAsksIffEdited ==
  [][\A j \in DOMAIN pages :
       (out'.event = "handleRedo" /\ out'.page = pages[j].pageNumber
          /\ pages[j].status = "completed")
         => /\ (out'.ocrStarted /\ ~out'.confirmAsked)
                 <=> (pages[j].extractedText = pages[j].originalExtractedText)
            /\ (pages[j].extractedText # pages[j].originalExtractedText /\ out'.ocrStarted)
                 => (out'.confirmAsked /\ out'.confirmed)]_vars

C5_Witness ==
  /\ out.event = "handleRedo" /\ out.status = "completed"
  /\ out.ocrStarted /\ ~out.confirmAsked
  /\ \E j \in DOMAIN pages : pages[j].pageNumber = out.page /\ pages[j].status = "processing"

\* C6: a declined redo confirmation changes no PageRecord, no stat and starts
\* no OCR call.
C6_DeclinedRedoChangesNothing ==
  [][(out'.event = "handleRedo" /\ out'.confirmAsked /\ ~out'.confirmed)
       => /\ UNCHANGED <<pages, stats, selectedFormat, runs, uploads, redoCalls>>
          /\ ~out'.ocrStarted /\ ~out'.ocrSettled]_vars

C6_Witness ==
  /\ out.event = "handleRedo" /\ out.confirmAsked /\ ~out.confirmed
  /\ \E j \in DOMAIN pages :
       /\ pages[j].pageNumber = out.page /\ pages[j].status = "completed"
       /\ pages[j].extractedText # pages[j].originalExtractedText

\* C7: when an OCR request settles, the page it was made for gets exactly the
\* values of that completion, whatever was typed into the page while it was
\* in processing.
C7_CompletionOverridesEdits ==
  [][(out'.ocrSettled /\ HasPage(pages', out'.page))
       => LET q == PageOf(pages', out'.page)
          IN IF out'.result.raised
               THEN q.status = "error" /\ q.extractedText = OcrFailedMessage
               ELSE /\ q.status = "completed"
                    /\ q.extractedText = out'.result.value
                    /\ q.originalExtractedText = out'.result.value]_vars

C7_Witness ==
  /\ out.ocrSettled /\ out.status = "processing" /\ Truthy(out.replaced)
  /\ HasPage(pages, out.page)
  /\ PageOf(pages, out.page).extractedText = out.result.value
  /\ out.replaced # out.result.value

FailedPlaceholder(extension) ==
  IF extension = "txt" THEN TxtFailedPlaceholder
  ELSE IF extension = "md" THEN MdFailedPlaceholder ELSE Null

\* the exported content of page j of the store in a file of the given format
ExportedContent(file, j) ==
  IF file.extension = "json" THEN file.content[j].text ELSE file.content[3 * j].text

\* C8: in every format the exported content of a page is its extractedText
\* when the page is completed or the text is not empty, and the failure
\* placeholder of the format otherwise; a json entry carries page and status.
C8_ExportedContent ==
  out.event = "downloadFullText" =>
    /\ out.file.extension = selectedFormat
    /\ \A j \in DOMAIN pages :
         /\ ExportedContent(out.file, j) =
              IF pages[j].status = "completed" \/ pages[j].extractedText # EmptyText
                THEN pages[j].extractedText
                ELSE FailedPlaceholder(out.file.extension)
         /\ out.file.extension = "json"
              => /\ out.file.content[j].page = pages[j].pageNumber
                 /\ out.file.content[j].status = pages[j].status

C8_Witness ==
  /\ out.event = "downloadFullText"
  /\ \E j, k \in DOMAIN pages :
       /\ pages[j].status \notin {"completed"} /\ pages[j].extractedText = EmptyText
       /\ ExportedContent(out.file, j) = FailedPlaceholder(out.file.extension)
       /\ pages[k].status = "error" /\ ExportedContent(out.file, k) = OcrFailedMessage

\* the page numbers of the sections of an exported file, in file order
SectionPages(file) ==
  LET isSection(seg) == seg.seg \in {"txt-page-marker", "md-page-heading", "json-object"}
      sections == SelectSeq(file.content, isSection)
  IN [j \in DOMAIN sections |-> sections[j].page]

\* C9: in every format the export has exactly one section per PageRecord, in
\* ascending page-number order, whatever the status of the pages.
C9_ExportTotalAndOrdered ==
  out.event = "downloadFullText" =>
    /\ SectionPages(out.file) = [j \in 1..Len(pages) |-> j]
    /\ Len(out.file.content) = IF out.file.extension = "json" THEN Len(pages)
                                                               ELSE 1 + 3 * Len(pages)

C9_Witness ==
  /\ out.event = "downloadFullText" /\ out.file.extension = "json"
  /\ Len(pages) >= 2
  /\ pages[1].status # "completed" /\ pages[2].status = "completed"

\* C10 (as claimed): an OCR request that fails for any cause leaves the page
\* in error with an error message as its text, and a page is completed only
\* when the service answered the request.
C10_FailedOcrEndsInError ==
  [][(out'.ocrSettled /\ HasPage(pages', out'.page))
       => LET q == PageOf(pages', out'.page)
              failed == out'.response \in {"nokey", "network", "service"}
          IN /\ failed => (q.status = "error" /\ q.extractedText \in {OcrFailedMessage, OcrErrorText})
             /\ q.status = "completed" => ~failed]_vars

\* the failures named "nokey", "network" and "service" of an OCR request
FailedResponses == {"nokey", "network", "service"}

\* C11 (as claimed): when the render or the OCR of page i < N fails, the loop
\* of the run goes on to page i + 1.
C11_PageFailureNeverAborts ==
  [][\A r \in 1..MaxUploads :
       (/\ runs[r].pc \in {"render", "ocr"} /\ runs'[r] # runs[r]
        /\ runs[r].i < runs[r].total
        /\ \/ out'.event = "renderFailed"
           \/ out'.ocrSettled /\ out'.response \in FailedResponses)
         => runs'[r].pc = "getPage" /\ runs'[r].i = runs[r].i + 1]_vars

\* C12: when the decode of the uploaded document fails, the store is empty,
\* totalPages is 0, the failure is shown in one alert, isProcessing is false
\* and the run has ended.
C12_DecodeFailureAbortsLoad ==
  [][\A r \in 1..MaxUploads :
       (runs[r].pc = "decoding" /\ out'.event = "decodeFailed" /\ runs'[r] # runs[r])
         => /\ pages' = <<>> /\ pages = <<>>
            /\ stats'.totalPages = 0 /\ stats'.processedPages = 0
            /\ ~stats'.isProcessing
            /\ out'.alert = "cannot-read-pdf"
            /\ runs'[r].pc = "done"]_vars

C12_Witness ==
  /\ out.event = "decodeFailed" /\ out.alert = "cannot-read-pdf"
  /\ uploads = 2 /\ runs[1].pc = "done" /\ runs[2].pc = "done"
  /\ pages = <<>> /\ ~stats.isProcessing

\* the tasks of a redo: the handler that starts it and the settling of its
\* OCR request
RedoEvents == {"handleRedo", "redoReturned"}

\* C13: a task of a redo of page k leaves the stats, the pipeline run, the
\* imageUrl of page k and every other PageRecord as they are.
C13_RedoChangesOnlyItsPage ==
  [][out'.event \in RedoEvents
       => /\ stats' = stats /\ runs' = runs
          /\ DOMAIN pages' = DOMAIN pages
          /\ \A j \in DOMAIN pages :
               IF pages[j].pageNumber = out'.page
                 THEN /\ pages'[j].pageNumber = pages[j].pageNumber
                      /\ pages'[j].imageUrl = pages[j].imageUrl
                 ELSE pages'[j] = pages[j]]_vars

\* the redo of page 1 has completed while the loop is at page 2
C13_Witness ==
  /\ out.event = "redoReturned" /\ out.page = 1 /\ out.status = "processing"
  /\ stats.isProcessing
  /\ \E r \in 1..MaxUploads : runs[r].pc \in Running /\ runs[r].i = 2
  /\ Len(pages) = 2 /\ pages[1].status = "completed" /\ pages[1].imageUrl # NoImage
  /\ pages[2].status \in {"rendering", "processing"}

\* C14: handleTextChange for page k writes extractedText of page k and
\* nothing else: status, originalExtractedText and imageUrl of page k, the
\* other PageRecords and the stats stay, so the edited page still differs
\* from its originalExtractedText when a redo compares them.
C14_EditChangesOnlyText ==
  [][out'.event = "handleTextChange"
       => /\ stats' = stats /\ runs' = runs /\ redoCalls' = redoCalls
          /\ DOMAIN pages' = DOMAIN pages
          /\ \A j \in DOMAIN pages :
               IF pages[j].pageNumber = out'.page
                 THEN /\ pages'[j] = [pages[j] EXCEPT !.extractedText = pages'[j].extractedText]
                      /\ isEdited(pages'[j])
                           <=> pages'[j].extractedText # pages[j].originalExtractedText
                 ELSE pages'[j] = pages[j]]_vars

\* a completed page has just been edited and a redo would ask
C14_Witness ==
  /\ out.event = "handleTextChange"
  /\ HasPage(pages, out.page)
  /\ PageOf(pages, out.page).status = "completed"
  /\ PageOf(pages, out.page).originalExtractedText.kind = "recognized"
  /\ NeedsConfirm(PageOf(pages, out.page))

\* C15 (as claimed): the editor is available for every page in status error,
\* so that the user can replace its text.
C15_ErrorPageEditable ==
  \A j \in DOMAIN pages :
    pages[j].status = "error" => ENABLED TypeText(j, EmptyText)

\* the status changes of the claimed life cycle of a PageRecord
StatusSteps ==
  { <<"pending", "rendering">>, <<"rendering", "processing">>,
    <<"processing", "completed">>, <<"processing", "error">>,
    <<"completed", "processing">>, <<"error", "processing">> }

\* a task changes a status from `old` to `new` by writes that each keep the
\* status or take a step of the life cycle; a task that calls
\* performOcrOnPage for the page writes processing before anything else
StatusWrites(old, new, startsOcr) ==
  IF startsOcr
    THEN /\ old = "processing" \/ <<old, "processing">> \in StatusSteps
         /\ new = "processing" \/ <<"processing", new>> \in StatusSteps
    ELSE old = new \/ <<old, new>> \in StatusSteps

\* C16 (as claimed): the records created by a decode start in pending (the
\* first one is set to rendering in the same task), and every other task
\* changes the status of a record only along the life cycle.
C16_StatusLifeCycle ==
  [][IF out'.event = "decoded"
       THEN \A j \in DOMAIN pages' :
              StatusWrites("pending", pages'[j].status, FALSE)
       ELSE \A j \in DOMAIN pages \cap DOMAIN pages' :
              StatusWrites(pages[j].status, pages'[j].status,
                           out'.ocrStarted /\ out'.page = pages[j].pageNumber)]_vars

\* the records that are being rendered or recognised
InWork(ps) == {j \in DOMAIN ps : ps[j].status \in {"rendering", "processing"}}

\* C17 (as claimed): while a run without redo is processing, at most one
\* PageRecord is in rendering or processing.
C17_OnePageInWork == stats.isProcessing => Cardinality(InWork(pages)) <= 1

\* the records whose pass through the loop has ended in completed or error
Finished(ps) == {j \in DOMAIN ps : ps[j].status \in {"completed", "error"}}

\* C18 (as claimed): in a run without redo processedPages is the number of
\* pages that have finished in completed or error, it never decreases within
\* a load, and page i + 1 leaves pending only when processedPages is i.
C18_ProcessedPagesCountsFinished ==
  /\ [](stats.processedPages = Cardinality(Finished(pages)))
  /\ [][out'.event # "handleFileChange"
          => stats'.processedPages >= stats.processedPages]_vars
  /\ [][\A j \in DOMAIN pages \cap DOMAIN pages' :
          (pages[j].status = "pending" /\ pages'[j].status # "pending")
            => stats'.processedPages = j - 1]_vars

\* the OCR requests in flight for page number n: those of handleRedo and
\* those of the loops of the runs
InFlight(n) ==
  LET redos == {call \in BagToSet(redoCalls) : call.pageNumber = n}
      loops == {r \in 1..MaxUploads : runs[r].pc = "ocr" /\ runs[r].i = n}
      sum[S \in SUBSET redos] ==
        IF S = {} THEN 0
        ELSE LET call == CHOOSE c \in S : TRUE
             IN CopiesIn(call, redoCalls) + sum[S \ {call}]
  IN sum[redos] + Cardinality(loops)

\* C19 (as claimed): handleRedo for a page in processing starts no OCR
\* request and changes nothing, and no page number ever has two OCR requests
\* in flight.
C19_RedoOfProcessingPageIgnored ==
  /\ [][\A j \in DOMAIN pages :
          (out'.event = "handleRedo" /\ out'.page = pages[j].pageNumber
             /\ pages[j].status = "processing")
            => /\ ~out'.ocrStarted
               /\ UNCHANGED <<pages, stats, runs, redoCalls>>]_vars
  /\ [](\A n \in 1..MaxPages : InFlight(n) <= 1)

\* the OCR requests of handleRedo that settle in a step
SettledRedos ==
  {call \in BagToSet(redoCalls) : CopiesIn(call, redoCalls') < CopiesIn(call, redoCalls)}

\* C20 (as claimed): the completion of a redo that was started on the store
\* of an earlier document leaves the store of the latest upload as it is.
C20_StaleCompletionDiscarded ==
  [][\A call \in SettledRedos : call.imageUrl.doc # uploads => pages' = pages]_vars

\* C21 (as claimed): when the file read, the decode, the renders and the OCR
\* requests all settle, an upload that has set isProcessing to true reaches a
\* state in which isProcessing is false.
C21_UploadTerminates == stats.isProcessing ~> ~stats.isProcessing

\* C22: when the drawing context of page i is missing, the task changes
\* nothing of the record of page i (it stays in rendering with no image),
\* starts no OCR request, shows nothing, leaves processedPages, and the loop
\* goes on with page i + 1 or ends after the last page.
C22_MissingContextSkipsPage ==
  [][\A r \in 1..MaxUploads :
       (runs[r].pc = "getPage" /\ out'.event = "noContext" /\ runs'[r] # runs[r])
         => LET i == runs[r].i
            IN /\ HasPage(pages, i) /\ HasPage(pages', i)
               /\ PageOf(pages', i) = PageOf(pages, i)
               /\ PageOf(pages', i).imageUrl = NoImage
               /\ ~out'.ocrStarted /\ ~out'.ocrSettled /\ redoCalls' = redoCalls
               /\ out'.alert = ""
               /\ stats'.processedPages = stats.processedPages
               /\ IF i < runs[r].total
                    THEN /\ runs'[r].pc = "getPage" /\ runs'[r].i = i + 1
                         /\ PageOf(pages', i + 1).status = "rendering"
                    ELSE runs'[r].pc = "done" /\ ~stats'.isProcessing]_vars

\* page 1 has been skipped and the loop is at page 2
C22_Witness ==
  /\ out.event = "noContext" /\ out.page = 1
  /\ \E r \in 1..MaxUploads : runs[r].pc = "getPage" /\ runs[r].i = 2
  /\ Len(pages) = 2
  /\ pages[1].status = "rendering" /\ pages[1].imageUrl = NoImage
  /\ pages[2].status = "rendering"

\* the positions of a run whose onload handler, or the read before it, is
\* still under way
Active == {"reading", "decoding", "getPage", "render", "ocr"}

ActiveRuns == {r \in 1..MaxUploads : runs[r].pc \in Active}

\* C23: at most one run is active at any time: isProcessing is true while a
\* run is active, and a run starts only while isProcessing is false and no
\* other run is active.
C23_OneActiveRun ==
  /\ [](Cardinality(ActiveRuns) <= 1)
  /\ [](ActiveRuns # {} => stats.isProcessing)
  /\ [][uploads' # uploads
          => /\ ~stats.isProcessing /\ ActiveRuns = {}
             /\ stats'.isProcessing]_vars

\* the second upload is in its loop after the first run has ended
C23_Witness ==
  /\ uploads = 2 /\ runs[1].pc = "done" /\ runs[2].pc = "ocr"
  /\ stats.isProcessing /\ ~UploadEnabled

\* C24: a PageRecord in error always holds the fixed error message, so in
\* every format the export of the store shows that message for it, and the
\* failure placeholder appears only for pages in pending, rendering or
\* processing.
C24_ErrorPageHasMessage ==
  \A j \in DOMAIN pages :
    /\ pages[j].status = "error" => pages[j].extractedText = OcrFailedMessage
    /\ \A format \in Formats :
         LET content == ExportedContent(Export(pages, format), j)
         IN /\ pages[j].status = "error" => content = OcrFailedMessage
            /\ content = FailedPlaceholder(format)
                 => pages[j].status \in {"pending", "rendering", "processing"}

\* the export is offered for a store with a page in error and a page that
\* the run left in rendering
C24_Witness ==
  /\ ExportShown /\ Len(pages) = 2
  /\ pages[1].status = "error" /\ pages[2].status = "rendering"
  /\ ExportedContent(Export(pages, "json"), 1) = OcrFailedMessage
  /\ ExportedContent(Export(pages, "txt"), 2) = TxtFailedPlaceholder

\* C25 (as claimed): originalExtractedText of a page changes only when an OCR
\* request for that page has succeeded, and then it equals extractedText;
\* the start of a cycle, a failed request and a text edit leave it.
C25_OriginalWrittenBySuccessOnly ==
  [][out'.event \notin {"handleFileChange", "decoded"}
       => \A j \in DOMAIN pages \cap DOMAIN pages' :
            LET settled == out'.ocrSettled /\ out'.page = pages[j].pageNumber
                succeeded == settled /\ out'.response \notin FailedResponses
            IN /\ pages'[j].originalExtractedText # pages[j].originalExtractedText
                    => succeeded
               /\ succeeded => ~isEdited(pages'[j])]_vars

\* C26: a PageRecord in processing has an empty extractedText, and a task
\* that starts an OCR cycle for a page leaves none of the page's earlier
\* text: the text is empty, or the fixed error message when the request was
\* rejected at once.
C26_ProcessingPageHasNoText ==
  /\ [](\A j \in DOMAIN pages :
          pages[j].status = "processing" => pages[j].extractedText = EmptyText)
  /\ [][out'.ocrStarted
          => \A j \in DOMAIN pages' :
               pages'[j].pageNumber = out'.page
                 => \/ /\ pages'[j].status = "processing"
                       /\ pages'[j].extractedText = EmptyText
                    \/ /\ pages'[j].status = "error"
                       /\ pages'[j].extractedText = OcrFailedMessage]_vars

\* the redo of an edited page has been confirmed and its request is in flight
C26_Witness ==
  /\ out.event = "handleRedo" /\ out.confirmAsked /\ out.confirmed /\ out.ocrStarted
  /\ HasPage(pages, out.page)
  /\ PageOf(pages, out.page).status = "processing"
  /\ PageOf(pages, out.page).extractedText = EmptyText
  /\ PageOf(pages, out.page).originalExtractedText.kind = "recognized"

====
